---- MODULE Spec2Model ----
(***************************************************************************)
(* Model of src/src/main.rs: the versioned save state (GameState with      *)
(* V1SaveState, V2SaveState, V3SaveState), its JSON envelope, the upgrade   *)
(* chain and the reconstruction of the hecs world from a V3 save state.    *)
(*                                                                         *)
(* A JSON text is modelled by the serde_json::Value it parses to (or by    *)
(* the value Invalid when it is not JSON).  A u64 is the pair of its 32-bit *)
(* halves (hi, lo), so that hecs::Entity::to_bits / from_bits, which pack  *)
(* the generation in the high half and the id in the low half, are         *)
(* computed as the library computes them.                                  *)
(***************************************************************************)
EXTENDS Integers, Sequences, FiniteSets, TLC

VARIABLES pc, held, json, cc, err, calls, world, pending, outcome

vars == <<pc, held, json, cc, err, calls, world, pending, outcome>>

(***************************************************************************)
(* Bounds of the model.                                                    *)
(***************************************************************************)
MaxPlayers == 1
MaxMonsters == 2

\* sequences over S of length at most n
RECURSIVE SeqUpTo(_, _)
SeqUpTo(S, n) ==
    IF n = 0 THEN {<<>>}
    ELSE LET shorter == SeqUpTo(S, n - 1)
         IN  shorter \cup {Append(s, x) : s \in {t \in shorter : Len(t) = n - 1}, x \in S}

(***************************************************************************)
(* hecs::Entity and Option<hecs::Entity>.                                  *)
(***************************************************************************)
Entity(i, g) == [id |-> i, generation |-> g]

None == [some |-> FALSE, id |-> 0, generation |-> 0]
Some(e) == [some |-> TRUE, id |-> e.id, generation |-> e.generation]
Unwrap(t) == Entity(t.id, t.generation)

(***************************************************************************)
(* The records of the three versions.                                      *)
(***************************************************************************)
V1SavePlayer(e, h, l, t) == [entity |-> e, health |-> h, level |-> l, target |-> t]
V1SaveMonster(e, h) == [entity |-> e, health |-> h]
V2SavePlayer(e, h, l, t, x, d) ==
    [entity |-> e, health |-> h, level |-> l, target |-> t, exp |-> x, damage |-> d]
V2SaveMonster(e, h, d) == [entity |-> e, health |-> h, damage |-> d]
V3SavePlayer(e, h, l, t, d) ==
    [entity |-> e, health |-> h, level |-> l, target |-> t, damage |-> d]
V3MonsterVariant == {"Angry", "Scary"}
V3SaveMonster(e, h, d, v) == [entity |-> e, health |-> h, damage |-> d, variant |-> v]

SaveState(ps, ms) == [players |-> ps, monsters |-> ms]

\* enum GameState: the version held and its save state
GameState(k, s) == [version |-> k, state |-> s]
V1_0(s) == GameState(1, s)
V2_0(s) == GameState(2, s)
V3_0(s) == GameState(3, s)
NoState == GameState(0, SaveState(<<>>, <<>>))

(***************************************************************************)
(* The upgrade transforms.                                                 *)
(***************************************************************************)
V2PlayerExp == 0
V2PlayerDamage == 5
V2MonsterDamage == 2
V3Variant == "Angry"

\* a transform that forgets the reference field
V1PlayerUpgrade_NoTarget(x) ==
    [entity |-> x.entity, health |-> x.health, level |-> x.level, target |-> None,
     exp |-> 0, damage |-> 5]
V1PlayerUpgrade(x) ==
    V2SavePlayer(x.entity, x.health, x.level, x.target, V2PlayerExp, V2PlayerDamage)
\* a transform that gives the monster the player's default damage
V1MonsterUpgrade_PlayerDefault(x) == [entity |-> x.entity, health |-> x.health, damage |-> 5]
V1MonsterUpgrade(x) == V2SaveMonster(x.entity, x.health, V2MonsterDamage)
V1SaveState_upgrade(self) ==
    SaveState([i \in 1..Len(self.players) |-> V1PlayerUpgrade(self.players[i])],
              [i \in 1..Len(self.monsters) |-> V1MonsterUpgrade(self.monsters[i])])

V2PlayerUpgrade(x) == V3SavePlayer(x.entity, x.health, x.level, x.target, x.damage)
V2MonsterUpgrade(x) == V3SaveMonster(x.entity, x.health, x.damage, V3Variant)
V2SaveState_upgrade(self) ==
    SaveState([i \in 1..Len(self.players) |-> V2PlayerUpgrade(self.players[i])],
              [i \in 1..Len(self.monsters) |-> V2MonsterUpgrade(self.monsters[i])])

\* a V1 arm that wraps the V2 save state as V3_0
upgrade_version_Mistagged(self) ==
    CASE self.version = 1 -> [version |-> 3, state |-> V1SaveState_upgrade(self.state)]
      [] self.version = 2 -> [version |-> 3, state |-> V2SaveState_upgrade(self.state)]
      [] self.version = 3 -> [version |-> 3, state |-> self.state]
\* a V1 arm that applies both transforms in one step
upgrade_version_Skip(self) ==
    CASE self.version = 1 ->
           [version |-> 3, state |-> V2SaveState_upgrade(V1SaveState_upgrade(self.state))]
      [] self.version = 2 -> [version |-> 3, state |-> V2SaveState_upgrade(self.state)]
      [] self.version = 3 -> [version |-> 3, state |-> self.state]
upgrade_version(self) ==
    CASE self.version = 1 -> V2_0(V1SaveState_upgrade(self.state))
      [] self.version = 2 -> V3_0(V2SaveState_upgrade(self.state))
      [] self.version = 3 -> V3_0(self.state)

\* a stopping predicate left at the previous latest version
IsLatest_FromV2(g) == g.version >= 2
\* while !matches!(cc, GameState::V3_0(_))
IsLatest(g) == g.version = 3

(***************************************************************************)
(* serde_json::Value.                                                      *)
(***************************************************************************)
Invalid == [t |-> "invalid"]
JNull == [t |-> "null"]
JNum(hi, lo) == [t |-> "num", hi |-> hi, lo |-> lo]
JStr(s) == [t |-> "str", s |-> s]
JArr(a) == [t |-> "arr", a |-> a]
JObj(o) == [t |-> "obj", o |-> o]

\* impl Index<&str> for Value: Null unless an object that has the key
Index(v, key) == IF v.t = "obj" /\ key \in DOMAIN v.o THEN v.o[key] ELSE JNull

Ok(v) == [ok |-> TRUE, v |-> v]
Err == [ok |-> FALSE]

(***************************************************************************)
(* Serialize.                                                              *)
(***************************************************************************)
ser_u32(n) == JNum(0, n)
\* Entity::to_bits: generation << 32 | id
ser_Entity(e) == JNum(e.generation, e.id)
ser_Option(t) == IF t.some THEN ser_Entity(Unwrap(t)) ELSE JNull
ser_Variant(v) == JStr(v)

ser_V1SavePlayer(x) ==
    JObj([entity |-> ser_Entity(x.entity), health |-> ser_u32(x.health),
          level |-> ser_u32(x.level), target |-> ser_Option(x.target)])
ser_V1SaveMonster(x) ==
    JObj([entity |-> ser_Entity(x.entity), health |-> ser_u32(x.health)])
ser_V2SavePlayer(x) ==
    JObj([entity |-> ser_Entity(x.entity), health |-> ser_u32(x.health),
          level |-> ser_u32(x.level), target |-> ser_Option(x.target),
          exp |-> ser_u32(x.exp), damage |-> ser_u32(x.damage)])
ser_V2SaveMonster(x) ==
    JObj([entity |-> ser_Entity(x.entity), health |-> ser_u32(x.health),
          damage |-> ser_u32(x.damage)])
ser_V3SavePlayer(x) ==
    JObj([entity |-> ser_Entity(x.entity), health |-> ser_u32(x.health),
          level |-> ser_u32(x.level), target |-> ser_Option(x.target),
          damage |-> ser_u32(x.damage)])
ser_V3SaveMonster(x) ==
    JObj([entity |-> ser_Entity(x.entity), health |-> ser_u32(x.health),
          damage |-> ser_u32(x.damage), variant |-> ser_Variant(x.variant)])

ser_V1SaveState(s) ==
    JObj([players |-> JArr([i \in 1..Len(s.players) |-> ser_V1SavePlayer(s.players[i])]),
          monsters |-> JArr([i \in 1..Len(s.monsters) |-> ser_V1SaveMonster(s.monsters[i])])])
ser_V2SaveState(s) ==
    JObj([players |-> JArr([i \in 1..Len(s.players) |-> ser_V2SavePlayer(s.players[i])]),
          monsters |-> JArr([i \in 1..Len(s.monsters) |-> ser_V2SaveMonster(s.monsters[i])])])
ser_V3SaveState(s) ==
    JObj([players |-> JArr([i \in 1..Len(s.players) |-> ser_V3SavePlayer(s.players[i])]),
          monsters |-> JArr([i \in 1..Len(s.monsters) |-> ser_V3SaveMonster(s.monsters[i])])])

VersionTag(k) == CASE k = 1 -> "1.0" [] k = 2 -> "2.0" [] k = 3 -> "3.0"

\* #[serde(tag = "version", content = "data")]
Envelope(tag, data) == JObj([version |-> tag, data |-> data])

\* an encoder that tags every text with the latest version
save_to_json_AsLatest(self) ==
    CASE self.version = 1 -> Envelope(JStr("3.0"), ser_V1SaveState(self.state))
      [] self.version = 2 -> Envelope(JStr("3.0"), ser_V2SaveState(self.state))
      [] self.version = 3 -> Envelope(JStr("3.0"), ser_V3SaveState(self.state))
save_to_json(self) ==
    CASE self.version = 1 -> Envelope(JStr(VersionTag(1)), ser_V1SaveState(self.state))
      [] self.version = 2 -> Envelope(JStr(VersionTag(2)), ser_V2SaveState(self.state))
      [] self.version = 3 -> Envelope(JStr(VersionTag(3)), ser_V3SaveState(self.state))

(***************************************************************************)
(* Deserialize.  A derived struct is read from an object (unknown keys are *)
(* ignored, a missing key is an error unless the field is an Option, which *)
(* is then None) or from an array holding exactly its fields in order.     *)
(***************************************************************************)
de_u32(v) == IF v.t = "num" /\ v.hi = 0 THEN Ok(v.lo) ELSE Err
\* Entity::from_bits: None when the generation half is zero
de_Entity(v) == IF v.t = "num" /\ v.hi # 0 THEN Ok(Entity(v.lo, v.hi)) ELSE Err
de_Option(v) ==
    IF v.t = "null" THEN Ok(None)
    ELSE IF de_Entity(v).ok THEN Ok(Some(de_Entity(v).v)) ELSE Err
de_Variant(v) == IF v.t = "str" /\ v.s \in V3MonsterVariant THEN Ok(v.s) ELSE Err

Fields(v, names) ==
    IF v.t = "obj" THEN Ok(v.o)
    ELSE IF v.t = "arr" /\ Len(v.a) = Len(names)
         THEN Ok([n \in {names[i] : i \in 1..Len(names)} |->
                    v.a[CHOOSE i \in 1..Len(names) : names[i] = n]])
         ELSE Err

field_u32(o, n) == IF n \in DOMAIN o THEN de_u32(o[n]) ELSE Err
field_Entity(o, n) == IF n \in DOMAIN o THEN de_Entity(o[n]) ELSE Err
\* an Option field that must be present
field_Option_Required(o, n) == IF n \in DOMAIN o THEN de_Option(o[n]) ELSE Err
field_Option(o, n) == IF n \in DOMAIN o THEN de_Option(o[n]) ELSE Ok(None)
field_Variant(o, n) == IF n \in DOMAIN o THEN de_Variant(o[n]) ELSE Err

de_V1SavePlayer(v) ==
    LET f == Fields(v, <<"entity", "health", "level", "target">>)
        e == field_Entity(f.v, "entity")
        h == field_u32(f.v, "health")
        l == field_u32(f.v, "level")
        t == field_Option(f.v, "target")
    IN  IF f.ok /\ e.ok /\ h.ok /\ l.ok /\ t.ok
        THEN Ok(V1SavePlayer(e.v, h.v, l.v, t.v)) ELSE Err
de_V1SaveMonster(v) ==
    LET f == Fields(v, <<"entity", "health">>)
        e == field_Entity(f.v, "entity")
        h == field_u32(f.v, "health")
    IN  IF f.ok /\ e.ok /\ h.ok THEN Ok(V1SaveMonster(e.v, h.v)) ELSE Err
de_V2SavePlayer(v) ==
    LET f == Fields(v, <<"entity", "health", "level", "target", "exp", "damage">>)
        e == field_Entity(f.v, "entity")
        h == field_u32(f.v, "health")
        l == field_u32(f.v, "level")
        t == field_Option(f.v, "target")
        x == field_u32(f.v, "exp")
        d == field_u32(f.v, "damage")
    IN  IF f.ok /\ e.ok /\ h.ok /\ l.ok /\ t.ok /\ x.ok /\ d.ok
        THEN Ok(V2SavePlayer(e.v, h.v, l.v, t.v, x.v, d.v)) ELSE Err
de_V2SaveMonster(v) ==
    LET f == Fields(v, <<"entity", "health", "damage">>)
        e == field_Entity(f.v, "entity")
        h == field_u32(f.v, "health")
        d == field_u32(f.v, "damage")
    IN  IF f.ok /\ e.ok /\ h.ok /\ d.ok THEN Ok(V2SaveMonster(e.v, h.v, d.v)) ELSE Err
de_V3SavePlayer(v) ==
    LET f == Fields(v, <<"entity", "health", "level", "target", "damage">>)
        e == field_Entity(f.v, "entity")
        h == field_u32(f.v, "health")
        l == field_u32(f.v, "level")
        t == field_Option(f.v, "target")
        d == field_u32(f.v, "damage")
    IN  IF f.ok /\ e.ok /\ h.ok /\ l.ok /\ t.ok /\ d.ok
        THEN Ok(V3SavePlayer(e.v, h.v, l.v, t.v, d.v)) ELSE Err
de_V3SaveMonster(v) ==
    LET f == Fields(v, <<"entity", "health", "damage", "variant">>)
        e == field_Entity(f.v, "entity")
        h == field_u32(f.v, "health")
        d == field_u32(f.v, "damage")
        w == field_Variant(f.v, "variant")
    IN  IF f.ok /\ e.ok /\ h.ok /\ d.ok /\ w.ok
        THEN Ok(V3SaveMonster(e.v, h.v, d.v, w.v)) ELSE Err

\* which record type a Vec holds, by version and attribute
de_Record(k, kind, v) ==
    CASE k = 1 /\ kind = "players" -> de_V1SavePlayer(v)
      [] k = 1 /\ kind = "monsters" -> de_V1SaveMonster(v)
      [] k = 2 /\ kind = "players" -> de_V2SavePlayer(v)
      [] k = 2 /\ kind = "monsters" -> de_V2SaveMonster(v)
      [] k = 3 /\ kind = "players" -> de_V3SavePlayer(v)
      [] k = 3 /\ kind = "monsters" -> de_V3SaveMonster(v)

\* Vec<T>: an array whose every element is a T
de_Vec(k, kind, v) ==
    IF v.t = "arr" /\ \A i \in 1..Len(v.a) : de_Record(k, kind, v.a[i]).ok
    THEN Ok([i \in 1..Len(v.a) |-> de_Record(k, kind, v.a[i]).v])
    ELSE Err

field_Vec(k, o, kind) == IF kind \in DOMAIN o THEN de_Vec(k, kind, o[kind]) ELSE Err

\* V1SaveState, V2SaveState, V3SaveState (k = 1, 2, 3)
de_SaveState(k, v) ==
    LET f == Fields(v, <<"players", "monsters">>)
        p == field_Vec(k, f.v, "players")
        m == field_Vec(k, f.v, "monsters")
    IN  IF f.ok /\ p.ok /\ m.ok THEN Ok(SaveState(p.v, m.v)) ELSE Err

(***************************************************************************)
(* GameState::init_from_json up to the match on the version tag: the value *)
(* of deserialized_version, or the error returned.                         *)
(***************************************************************************)
SyntaxError == "serde_json::Error: syntax"
DataError == "serde_json::Error: data"
UnknownVersion == "Unknown version"

Loaded(g) == [ok |-> TRUE, v |-> g, e |-> "none"]
Failed(e) == [ok |-> FALSE, v |-> NoState, e |-> e]

load_version(k, data) ==
    IF de_SaveState(k, data).ok
    THEN Loaded(GameState(k, de_SaveState(k, data).v))
    ELSE Failed(DataError)

\* a match whose last arm falls back to version 1
deserialized_version_Fallback(text) ==
    IF text.t = "invalid" THEN Failed(SyntaxError)
    ELSE LET tag == Index(text, "version")
             data == Index(text, "data")
         IN  CASE tag = JStr("2.0") -> load_version(2, data)
               [] tag = JStr("3.0") -> load_version(3, data)
               [] OTHER -> load_version(1, data)
\* a decoder that reports a missing version attribute as a parse error
deserialized_version_MissingTag(text) ==
    IF text.t = "invalid" \/ text.t # "obj" \/ "version" \notin DOMAIN text.o
    THEN Failed(SyntaxError)
    ELSE LET tag == Index(text, "version")
             data == Index(text, "data")
         IN  CASE tag = JStr("1.0") -> load_version(1, data)
               [] tag = JStr("2.0") -> load_version(2, data)
               [] tag = JStr("3.0") -> load_version(3, data)
               [] OTHER -> Failed(UnknownVersion)
deserialized_version(text) ==
    IF text.t = "invalid" THEN Failed(SyntaxError)
    ELSE LET tag == Index(text, "version")
             data == Index(text, "data")
         IN  CASE tag = JStr("1.0") -> load_version(1, data)
               [] tag = JStr("2.0") -> load_version(2, data)
               [] tag = JStr("3.0") -> load_version(3, data)
               [] OTHER -> Failed(UnknownVersion)

(***************************************************************************)
(* The inputs: the save states a caller holds.                             *)
(***************************************************************************)
NoJson == [t |-> "none"]

SaveEntities == {Entity(0, 1), Entity(1, 2)}
Targets(E) == {None} \cup {Some(e) : e \in E}
\* <<health, level, exp, damage>> of a player; <<health, damage, variant>> of a monster
PlayerStats == {<<20, 1, 0, 5>>, <<7, 3, 4, 9>>}
MonsterStats == {<<20, 2, "Angry">>, <<3, 6, "Scary">>}

Players(k, E, PS) ==
    {CASE k = 1 -> V1SavePlayer(e, s[1], s[2], t)
       [] k = 2 -> V2SavePlayer(e, s[1], s[2], t, s[3], s[4])
       [] k = 3 -> V3SavePlayer(e, s[1], s[2], t, s[4])
     : e \in E, s \in PS, t \in Targets(E)}
Monsters(k, E, MS) ==
    {CASE k = 1 -> V1SaveMonster(e, s[1])
       [] k = 2 -> V2SaveMonster(e, s[1], s[2])
       [] k = 3 -> V3SaveMonster(e, s[1], s[2], s[3])
     : e \in E, s \in MS}
SaveStates(k, E, PS, MS) ==
    {SaveState(ps, ms) : ps \in SeqUpTo(Players(k, E, PS), MaxPlayers),
                         ms \in SeqUpTo(Monsters(k, E, MS), MaxMonsters)}

\* the save states handed to run_latest_version_of_game_from_save_state
RunEntities == {Entity(0, 1), Entity(1, 1), Entity(1, 2), Entity(2, 1)}
RunPlayerStats == {<<20, 1, 0, 5>>}
RunMonsterStats == {<<3, 2, "Angry">>}

(***************************************************************************)
(* hecs::World: one slot per entity id; a live slot holds the generation   *)
(* of the entity living there and its components.                          *)
(***************************************************************************)
Slots == {e.id : e \in RunEntities}
Vacant == [live |-> FALSE]
EmptyWorld == [i \in Slots |-> Vacant]

Init ==
    /\ pc = "held"
    /\ \E k \in 1..3 : \E s \in SaveStates(k, SaveEntities, PlayerStats, MonsterStats) : held = GameState(k, s)
    /\ json = NoJson
    /\ cc = NoState
    /\ err = "none"
    /\ calls = <<>>
    /\ world = EmptyWorld
    /\ pending = {}
    /\ outcome = "none"

(***************************************************************************)
(* The operations.                                                         *)
(***************************************************************************)
\* save_to_json on the held state; the text is what is later loaded
SaveToJson ==
    /\ pc = "held"
    /\ json' = save_to_json(held)
    /\ pc' = "saved"
    /\ UNCHANGED <<held, cc, err, calls, world, pending, outcome>>

\* init_from_json, lines 45-62
Decode ==
    /\ pc = "saved"
    /\ LET r == deserialized_version(json)
       IN  /\ cc' = r.v
           /\ err' = r.e
           /\ pc' = IF r.ok THEN "decoded" ELSE "failed"
    /\ UNCHANGED <<held, json, calls, world, pending, outcome>>

\* convert_to_latest, line 36: called on the held state, or by init_from_json
\* (line 65) on deserialized_version
ConvertFirst ==
    /\ pc \in {"held", "decoded"}
    /\ LET self == IF pc = "held" THEN held ELSE cc
       IN  /\ cc' = upgrade_version(self)
           /\ calls' = Append(calls, self)
    /\ pc' = "loop"
    /\ UNCHANGED <<held, json, err, world, pending, outcome>>

\* convert_to_latest, lines 38-40
ConvertLoop ==
    /\ pc = "loop"
    /\ ~IsLatest(cc)
    /\ cc' = upgrade_version(cc)
    /\ calls' = Append(calls, cc)
    /\ UNCHANGED <<pc, held, json, err, world, pending, outcome>>

\* convert_to_latest, line 41 (and init_from_json, line 66)
ConvertReturn ==
    /\ pc = "loop"
    /\ IsLatest(cc)
    /\ pc' = "latest"
    /\ UNCHANGED <<held, json, cc, err, calls, world, pending, outcome>>

Next == SaveToJson \/ Decode \/ ConvertFirst \/ ConvertLoop \/ ConvertReturn

Spec == Init /\ [][Next]_vars

(***************************************************************************)
(* run_latest_version_of_game_from_save_state.                             *)
(***************************************************************************)
\* a spawn that allocates the lowest vacant slot instead of using the handle
spawn_at_Fresh(w, handle, bundle) ==
    IF \A i \in DOMAIN w : w[i].live THEN w
    ELSE LET i == CHOOSE i \in DOMAIN w : ~w[i].live /\ \A j \in DOMAIN w : ~w[j].live => i <= j
         IN  [w EXCEPT ![i] = bundle @@ [live |-> TRUE, generation |-> 1]]
\* World::spawn_at: the handle's slot gets the handle's generation and the
\* bundle; whatever entity lived in the slot is despawned
spawn_at(w, handle, bundle) ==
    [w EXCEPT ![handle.id] = bundle @@ [live |-> TRUE, generation |-> handle.generation]]

PlayerBundle(x) ==
    [player |-> [level |-> x.level, damage |-> x.damage, target |-> x.target],
     health |-> x.health]
MonsterBundle(x) ==
    [monster |-> [damage |-> x.damage, variant |-> x.variant], health |-> x.health]

RECURSIVE SpawnPlayersFrom(_, _, _)
SpawnPlayersFrom(w, players, i) ==
    IF i > Len(players) THEN w
    ELSE SpawnPlayersFrom(spawn_at(w, players[i].entity, PlayerBundle(players[i])), players, i + 1)

RECURSIVE SpawnMonstersFrom(_, _, _)
SpawnMonstersFrom(w, monsters, i) ==
    IF i > Len(monsters) THEN w
    ELSE SpawnMonstersFrom(spawn_at(w, monsters[i].entity, MonsterBundle(monsters[i])), monsters, i + 1)

\* the entities a query over (&Player, &Health) visits
PlayerQuery(w) == {i \in DOMAIN w : w[i].live /\ "player" \in DOMAIN w[i]}

\* World::get::<&mut Health>(e) while the query over (&Player, &Health) runs:
\* NoSuchEntity unless the slot is live with e's generation; a panic when the
\* entity is in the archetype whose Health column the query has borrowed
get_Health(w, e) ==
    IF e.id \notin DOMAIN w \/ ~w[e.id].live \/ w[e.id].generation # e.generation
    THEN "NoSuchEntity"
    ELSE IF "player" \in DOMAIN w[e.id] THEN "already borrowed" ELSE "ok"

saturating_sub(a, b) == IF a > b THEN a - b ELSE 0

\* lines 332-344
SpawnPlayers ==
    /\ pc = "latest"
    /\ IsLatest(cc)
    /\ world' = SpawnPlayersFrom(EmptyWorld, cc.state.players, 1)
    /\ pc' = "players"
    /\ UNCHANGED <<held, json, cc, err, calls, pending, outcome>>

\* lines 346-355, and the start of the query of line 361
SpawnMonsters ==
    /\ pc = "players"
    /\ world' = SpawnMonstersFrom(world, cc.state.monsters, 1)
    /\ pending' = PlayerQuery(world')
    /\ pc' = "query"
    /\ UNCHANGED <<held, json, cc, err, calls, outcome>>

\* one iteration of the loop of lines 361-380, on any player not yet visited
PlayerTurn ==
    /\ pc = "query"
    /\ \E i \in pending :
         LET a == world[i].player
             r == IF a.target.some THEN get_Health(world, Unwrap(a.target)) ELSE "none"
         IN  /\ pending' = pending \ {i}
             /\ CASE r = "NoSuchEntity" ->
                       /\ outcome' = "target should be valid"
                       /\ pc' = "panicked"
                       /\ world' = world
                  [] r = "already borrowed" ->
                       /\ outcome' = "Health already borrowed"
                       /\ pc' = "panicked"
                       /\ world' = world
                  [] r = "ok" ->
                       /\ world' = [world EXCEPT ![a.target.id].health = saturating_sub(@, a.damage)]
                       /\ UNCHANGED <<pc, outcome>>
                  [] r = "none" -> UNCHANGED <<pc, outcome, world>>
    /\ UNCHANGED <<held, json, cc, err, calls>>

\* the loop of lines 361-380 ends; lines 382-390 only print
QueryDone ==
    /\ pc = "query"
    /\ pending = {}
    /\ pc' = "done"
    /\ UNCHANGED <<held, json, cc, err, calls, world, pending, outcome>>

InitRun ==
    /\ pc = "latest"
    /\ held = NoState
    /\ json = NoJson
    /\ \E s \in SaveStates(3, RunEntities, RunPlayerStats, RunMonsterStats) : cc = V3_0(s)
    /\ err = "none"
    /\ calls = <<>>
    /\ world = EmptyWorld
    /\ pending = {}
    /\ outcome = "none"

NextRun == SpawnPlayers \/ SpawnMonsters \/ PlayerTurn \/ QueryDone

SpecRun == InitRun /\ [][NextRun]_vars

(***************************************************************************)
(* The inputs of init_from_json: texts that save_to_json did not           *)
(* necessarily write.  A payload is the serialization of a save state      *)
(* whose players have the shape of version kp and whose monsters that of   *)
(* km, with its first player or first monster record possibly edited (an   *)
(* attribute dropped, set to another value or added, or the record written *)
(* as an array), or with a payload attribute dropped or added.             *)
(***************************************************************************)
DecodeEntities == {Entity(0, 1), Entity(1, 2)}
DecodeTargets == {None, Some(Entity(1, 2))}
DecodePlayerStats == {<<20, 1, 4, 9>>}
DecodeMonsterStats == {<<20, 6, "Scary">>}
Shapes == {<<1, 1>>, <<2, 2>>, <<3, 3>>, <<2, 3>>}

DecodePlayers(k) ==
    {p \in Players(k, DecodeEntities, DecodePlayerStats) : p.target \in DecodeTargets}

ser_Player(k, x) ==
    CASE k = 1 -> ser_V1SavePlayer(x) [] k = 2 -> ser_V2SavePlayer(x) [] k = 3 -> ser_V3SavePlayer(x)
ser_Monster(k, x) ==
    CASE k = 1 -> ser_V1SaveMonster(x) [] k = 2 -> ser_V2SaveMonster(x) [] k = 3 -> ser_V3SaveMonster(x)

DropAttr(o, a) == [n \in DOMAIN o \ {a} |-> o[n]]
SetAttr(o, a, v) == [n \in DOMAIN o \cup {a} |-> IF n = a THEN v ELSE o[n]]

OtherValues ==
    {<<"entity", JNum(0, 7)>>, <<"health", JStr("20")>>, <<"health", JNum(1, 0)>>,
     <<"target", JStr("1")>>, <<"target", JNull>>, <<"exp", JNum(0, 4)>>,
     <<"variant", JStr("Sleepy")>>, <<"variant", JStr("Angry")>>}

\* the record r as written, edited, or as the array of its values in declaration order
RecordEdits(r, names) ==
    {r} \cup {JObj(DropAttr(r.o, a)) : a \in DOMAIN r.o}
        \cup {JObj(SetAttr(r.o, e[1], e[2])) : e \in OtherValues}
        \cup {JArr([i \in 1..Len(names) |-> r.o[names[i]]])}

AttrOrder(k, kind) ==
    CASE k = 1 /\ kind = "players" -> <<"entity", "health", "level", "target">>
      [] k = 2 /\ kind = "players" -> <<"entity", "health", "level", "target", "exp", "damage">>
      [] k = 3 /\ kind = "players" -> <<"entity", "health", "level", "target", "damage">>
      [] k = 1 /\ kind = "monsters" -> <<"entity", "health">>
      [] k = 2 /\ kind = "monsters" -> <<"entity", "health", "damage">>
      [] k = 3 /\ kind = "monsters" -> <<"entity", "health", "damage", "variant">>

ListEdits(rs, names) ==
    IF rs = <<>> THEN {rs} ELSE {[rs EXCEPT ![1] = r] : r \in RecordEdits(rs[1], names)}

Payloads(kp, km, pl, ml) ==
    LET ps == [i \in 1..Len(pl) |-> ser_Player(kp, pl[i])]
        ms == [i \in 1..Len(ml) |-> ser_Monster(km, ml[i])]
    IN  {JObj([players |-> JArr(x), monsters |-> JArr(ms)]) : x \in ListEdits(ps, AttrOrder(kp, "players"))}
        \cup {JObj([players |-> JArr(ps), monsters |-> JArr(x)]) : x \in ListEdits(ms, AttrOrder(km, "monsters"))}
        \cup {JObj([players |-> JArr(ps)]), JObj([monsters |-> JArr(ms)]),
              JObj([players |-> JArr(ps), monsters |-> JArr(ms), seed |-> JNum(0, 1)]),
              JObj([players |-> JNull, monsters |-> JArr(ms)])}

KnownTags == {JStr(VersionTag(k)) : k \in 1..3}
OtherTags == {JStr("9.9"), JStr("1"), JStr("3.0.0"), JNum(0, 1), JNull}

\* a known tag over any payload
TaggedPayload(text) ==
    \E sh \in Shapes, tag \in KnownTags :
      \E pl \in SeqUpTo(DecodePlayers(sh[1]), MaxPlayers) :
        \E ml \in SeqUpTo(Monsters(sh[2], DecodeEntities, DecodeMonsterStats), MaxMonsters) :
          \E d \in Payloads(sh[1], sh[2], pl, ml) : text = Envelope(tag, d)
\* any other tag, or none, over a payload that save_to_json writes
Retagged(text) ==
    \E k \in 1..3 :
      \E s \in SaveStates(k, DecodeEntities, DecodePlayerStats, DecodeMonsterStats) :
        LET d == save_to_json(GameState(k, s)).o.data
        IN  \/ \E tag \in OtherTags : text = Envelope(tag, d)
            \/ text = JObj([data |-> d])
\* a tag and no payload, or one that is no object
NoPayload(tags) ==
    UNION {{JObj([version |-> tag]), Envelope(tag, JNull), Envelope(tag, JNum(0, 1)),
            Envelope(tag, JArr(<<>>))} : tag \in tags}
\* an empty payload under an unknown tag, and texts that hold no envelope
NoEnvelope ==
    {Envelope(JStr("9.9"), JObj(<<>>)), JObj(<<>>), JArr(<<>>), JNull, JStr("1.0"),
     JNum(0, 1), Invalid}

InitDecode ==
    /\ pc = "saved"
    /\ held = NoState
    /\ \/ TaggedPayload(json)
       \/ Retagged(json)
       \/ json \in NoPayload(KnownTags) \cup NoEnvelope
    /\ cc = NoState
    /\ err = "none"
    /\ calls = <<>>
    /\ world = EmptyWorld
    /\ pending = {}
    /\ outcome = "none"

NextDecode == Decode \/ ConvertFirst \/ ConvertLoop \/ ConvertReturn

SpecDecode == InitDecode /\ [][NextDecode]_vars

(***************************************************************************)
(* Properties.                                                             *)
(***************************************************************************)
\* the value the n-th call of upgrade_version returned
Result(n) == IF n < Len(calls) THEN calls[n + 1] ELSE cc

\* the text was written by save_to_json and init_from_json has returned
RoundTripped == json # NoJson /\ pc \notin {"held", "saved"}
Returned == pc = "latest"

\* C1 as stated: encoding a held save state S with save_to_json and decoding the
\* text with init_from_json yields a value equal to S, still of S's version.
C1_RoundTripKeepsVersion == (Returned /\ json # NoJson) => cc = held

\* C1 amended: save_to_json tags the text with S's own version, init_from_json
\* never fails on it, reads the payload back as S in S's version and returns S
\* promoted to V3: S itself for a V3 save, S.upgrade() for a V2 save and
\* S.upgrade().upgrade() for a V1 save.
C1_RoundTripPromotes ==
    /\ json # NoJson => /\ Index(json, "version") = JStr(VersionTag(held.version))
                        /\ pc # "failed"
                        /\ err = "none"
    /\ pc = "decoded" => cc = held
    /\ (RoundTripped /\ pc # "decoded") => calls[1] = held
    /\ (Returned /\ json # NoJson) =>
          cc = CASE held.version = 1 ->
                      V3_0(V2SaveState_upgrade(V1SaveState_upgrade(held.state)))
                 [] held.version = 2 -> V3_0(V2SaveState_upgrade(held.state))
                 [] held.version = 3 -> held

C1_Witness ==
    /\ Returned /\ json # NoJson
    /\ held.version = 1
    /\ Len(held.state.players) = MaxPlayers
    /\ Len(held.state.monsters) = MaxMonsters
    /\ held.state.players[1].target = Some(held.state.monsters[2].entity)
    /\ cc # held

\* C2: after convert_to_latest on a V1 save state, every player's target and every
\* record's entity is the identifier it was, in the same position, after each
\* step, and a target that named a monster record still names a V3 monster record.
C2_ReferencePreserved ==
    (Returned /\ calls[1].version = 1) =>
        /\ cc.version = 3
        /\ \A n \in 1..Len(calls) :
             LET a == calls[n].state
                 b == Result(n).state
             IN  /\ Len(b.players) = Len(a.players)
                 /\ Len(b.monsters) = Len(a.monsters)
                 /\ \A i \in 1..Len(a.players) :
                      /\ b.players[i].entity = a.players[i].entity
                      /\ b.players[i].target = a.players[i].target
                 /\ \A j \in 1..Len(a.monsters) : b.monsters[j].entity = a.monsters[j].entity
        /\ \A i \in 1..Len(calls[1].state.players) :
             LET t == calls[1].state.players[i].target
             IN  (t.some /\ \E j \in 1..Len(calls[1].state.monsters) :
                                calls[1].state.monsters[j].entity = Unwrap(t))
                 => /\ cc.state.players[i].target = t
                    /\ \E j \in 1..Len(cc.state.monsters) :
                         cc.state.monsters[j].entity = Unwrap(cc.state.players[i].target)

C2_Witness ==
    /\ Returned /\ calls[1].version = 1 /\ cc.version = 3
    /\ Len(cc.state.players) >= 1
    /\ Len(cc.state.monsters) = MaxMonsters
    /\ cc.state.players[1].target.some
    /\ cc.state.monsters[2].entity = Unwrap(cc.state.players[1].target)
    /\ cc.state.monsters[1].entity # cc.state.monsters[2].entity

\* C3 as stated: convert_to_latest on a save state of version k calls
\* upgrade_version exactly 3 - k times, so never for a V3 save state.
C3_ExactlyLatestMinusK == Returned => Len(calls) = 3 - calls[1].version

\* C3 amended: convert_to_latest terminates after max(1, 3 - k) calls of
\* upgrade_version: two for V1, one for V2, and one for V3, whose call takes the
\* identity arm; the calls that transform the save state number exactly 3 - k.
C3_CallsUpgradeAtLeastOnce ==
    /\ Len(calls) <= 2
    /\ pc = "loop" => ENABLED (ConvertLoop \/ ConvertReturn)
    /\ Returned =>
         /\ Len(calls) = IF calls[1].version = 3 THEN 1 ELSE 3 - calls[1].version
         /\ Cardinality({n \in 1..Len(calls) : calls[n].version # Result(n).version})
              = 3 - calls[1].version
         /\ json = NoJson => calls[1] = held

C3_Witness == Returned /\ calls[1].version = 3 /\ Len(calls) = 1 /\ cc = calls[1] /\ json = NoJson

\* C7: V1SaveState::upgrade gives every player exp 0 and damage 5 and every
\* monster damage 2, V2SaveState::upgrade gives every monster the variant Angry;
\* health, level and (from V2 on) damage are copied, and the records keep their
\* number and order.
C7_DefaultBackfill ==
    \A n \in 1..Len(calls) :
      LET a == calls[n].state
          b == Result(n).state
      IN  /\ calls[n].version = 1 =>
               /\ Len(b.players) = Len(a.players) /\ Len(b.monsters) = Len(a.monsters)
               /\ \A i \in 1..Len(a.players) :
                    /\ b.players[i].exp = 0 /\ b.players[i].damage = 5
                    /\ b.players[i].health = a.players[i].health
                    /\ b.players[i].level = a.players[i].level
               /\ \A j \in 1..Len(a.monsters) :
                    /\ b.monsters[j].damage = 2
                    /\ b.monsters[j].health = a.monsters[j].health
          /\ calls[n].version = 2 =>
               /\ Len(b.players) = Len(a.players) /\ Len(b.monsters) = Len(a.monsters)
               /\ \A i \in 1..Len(a.players) :
                    /\ b.players[i].damage = a.players[i].damage
                    /\ b.players[i].health = a.players[i].health
                    /\ b.players[i].level = a.players[i].level
                    /\ "exp" \notin DOMAIN b.players[i]
               /\ \A j \in 1..Len(a.monsters) :
                    /\ b.monsters[j].variant = "Angry"
                    /\ b.monsters[j].damage = a.monsters[j].damage
                    /\ b.monsters[j].health = a.monsters[j].health

C7_Witness ==
    /\ Returned /\ Len(calls) = 2 /\ calls[1].version = 1
    /\ Len(cc.state.players) = MaxPlayers
    /\ Len(cc.state.monsters) = MaxMonsters
    /\ cc.state.monsters[1].health # cc.state.monsters[2].health
    /\ cc.state.players[1].health # 20

\* C8: for a V1 save state S, convert_to_latest returns the V3 state that
\* V1SaveState::upgrade followed by V2SaveState::upgrade gives.
C8_PathIndependence ==
    (Returned /\ calls[1].version = 1) =>
        cc = V3_0(V2SaveState_upgrade(V1SaveState_upgrade(calls[1].state)))

C8_Witness ==
    /\ Returned /\ json = NoJson /\ held.version = 1 /\ calls[1] = held
    /\ Len(held.state.players) = MaxPlayers /\ Len(held.state.monsters) = MaxMonsters
    /\ cc.version = 3

\* C10: every call of upgrade_version moves V1 to V2 or V2 to V3, or is the
\* identity on V3; the versions passed to successive calls rise by one; and
\* init_from_json, when it succeeds, returns a V3 state.
C10_LinearChain ==
    /\ \A n \in 1..Len(calls) :
         \/ calls[n].version < 3 /\ Result(n).version = calls[n].version + 1
         \/ calls[n].version = 3 /\ Result(n) = calls[n]
    /\ \A n \in 1..Len(calls) : n > 1 => calls[n].version = calls[n - 1].version + 1
    /\ (Returned /\ json # NoJson) => /\ cc.version = 3
                                    /\ err = "none"
                                    /\ calls[1].version \in 1..3

C10_Witness ==
    /\ Returned /\ json # NoJson
    /\ Len(calls) = 2 /\ calls[1].version = 1 /\ calls[2].version = 2 /\ cc.version = 3
    /\ Len(cc.state.monsters) >= 1

(***************************************************************************)
(* Properties of init_from_json on arbitrary texts.                        *)
(***************************************************************************)
Tag == Index(json, "version")
Data == Index(json, "data")
TagVersion == CHOOSE k \in 1..3 : Tag = JStr(VersionTag(k))
Rejected == pc = "failed"
Accepted == pc \in {"decoded", "loop", "latest"}
\* the value init_from_json read before converting it
Deserialized == IF pc = "decoded" THEN cc ELSE calls[1]

\* the attributes schema Vk declares for a record
DeclaredAttrs(k, kind) == {AttrOrder(k, kind)[i] : i \in 1..Len(AttrOrder(k, kind))}
RequiredAttrs(k, kind) == DeclaredAttrs(k, kind) \ {"target"}
IsEntityBits(v) == v.t = "num" /\ v.hi # 0
HasType(a, v) ==
    CASE a = "entity" -> IsEntityBits(v)
      [] a = "target" -> v.t = "null" \/ IsEntityBits(v)
      [] a = "variant" -> v \in {JStr("Angry"), JStr("Scary")}
      [] OTHER -> v.t = "num" /\ v.hi = 0

RecordConforms(k, kind, r) ==
    /\ r.t = "obj"
    /\ RequiredAttrs(k, kind) \subseteq DOMAIN r.o
    /\ \A a \in DOMAIN r.o \cap DeclaredAttrs(k, kind) : HasType(a, r.o[a])
RecordExact(k, kind, r) ==
    RecordConforms(k, kind, r) /\ DOMAIN r.o = DeclaredAttrs(k, kind)

ListConforms(k, kind, d) ==
    /\ kind \in DOMAIN d.o
    /\ d.o[kind].t = "arr"
    /\ \A i \in 1..Len(d.o[kind].a) : RecordConforms(k, kind, d.o[kind].a[i])
ListExact(k, kind, d) ==
    /\ kind \in DOMAIN d.o
    /\ d.o[kind].t = "arr"
    /\ \A i \in 1..Len(d.o[kind].a) : RecordExact(k, kind, d.o[kind].a[i])

PayloadConforms(k, d) ==
    d.t = "obj" /\ ListConforms(k, "players", d) /\ ListConforms(k, "monsters", d)
PayloadExact(k, d) ==
    /\ d.t = "obj"
    /\ DOMAIN d.o = {"players", "monsters"}
    /\ ListExact(k, "players", d) /\ ListExact(k, "monsters", d)

\* no struct of the payload is written as an array of its values
ObjectForm(d) ==
    /\ d.t # "arr"
    /\ d.t = "obj" =>
         \A kind \in DOMAIN d.o :
            d.o[kind].t = "arr" => \A i \in 1..Len(d.o[kind].a) : d.o[kind].a[i].t # "arr"

\* C4: a text whose version value is none of "1.0", "2.0", "3.0" (or is absent)
\* makes init_from_json return the error Unknown version: no save state of any
\* version is returned and no upgrade is applied, whatever data holds.
C4_UnknownTagRejected ==
    (pc # "saved" /\ json.t # "invalid" /\ Tag \notin {JStr("1.0"), JStr("2.0"), JStr("3.0")}) =>
        /\ Rejected
        /\ err = UnknownVersion
        /\ cc = NoState
        /\ calls = <<>>

C4_Witness ==
    /\ Rejected
    /\ Tag = JStr("9.9")
    /\ PayloadExact(3, Data)
    /\ Len(Data.o.players.a) = MaxPlayers
    /\ Len(Data.o.monsters.a) = MaxMonsters

\* C5 as stated: init_from_json accepts a payload under tag k only when every
\* record has exactly the attributes of schema Vk.
C5_ExactAttributesOnly ==
    (Accepted /\ ObjectForm(Data)) => PayloadExact(TagVersion, Data)

\* C5 amended: under a known tag k, init_from_json accepts a payload (structs
\* written as objects) exactly when players and monsters are arrays whose every
\* record has each attribute of Vk other than target with a value of its type,
\* and a target, when present, that is null or an entity; attributes that Vk
\* does not declare are ignored and an absent target reads as None.  A payload
\* that is not accepted is rejected with a serde_json data error.
C5_RequiredAttributesOnly ==
    (pc # "saved" /\ Tag \in KnownTags /\ ObjectForm(Data)) =>
        /\ Accepted <=> PayloadConforms(TagVersion, Data)
        /\ Rejected <=> ~Accepted
        /\ Rejected => err = DataError /\ cc = NoState /\ calls = <<>>
        /\ Accepted =>
             /\ Deserialized.version = TagVersion
             /\ Len(Deserialized.state.players) = Len(Data.o.players.a)
             /\ Len(Deserialized.state.monsters) = Len(Data.o.monsters.a)
             /\ \A i \in 1..Len(Data.o.players.a) :
                  /\ DOMAIN Deserialized.state.players[i] = DeclaredAttrs(TagVersion, "players")
                  /\ "target" \notin DOMAIN Data.o.players.a[i].o
                       => Deserialized.state.players[i].target = None
             /\ \A j \in 1..Len(Data.o.monsters.a) :
                  DOMAIN Deserialized.state.monsters[j] = DeclaredAttrs(TagVersion, "monsters")

C5_Witness ==
    /\ Returned
    /\ Tag = JStr("1.0")
    /\ PayloadConforms(1, Data)
    /\ ~PayloadExact(1, Data)
    /\ Len(Data.o.players.a) >= 1
    /\ Len(Data.o.monsters.a) >= 1
    /\ DOMAIN Data.o.players.a[1].o = DeclaredAttrs(2, "players") \ {"target"}
    /\ DOMAIN Data.o.monsters.a[1].o = DeclaredAttrs(3, "monsters")

\* the error kinds of the specification, for the errors the code returns
ErrorKind(e) ==
    CASE e = SyntaxError -> "MalformedEnvelope"
      [] e = UnknownVersion -> "UnknownVersion"
      [] e = DataError -> "SchemaMismatch"
      [] OTHER -> "none"

\* C6 as stated: a text that is no object or lacks version or data yields
\* MalformedEnvelope, a tag outside the closed set UnknownVersion, a payload that
\* does not match the tagged schema SchemaMismatch.
C6_DistinctErrorKinds ==
    Rejected =>
        ErrorKind(err) =
            IF json.t # "obj" \/ {"version", "data"} \ DOMAIN json.o # {}
            THEN "MalformedEnvelope"
            ELSE IF Tag \notin KnownTags THEN "UnknownVersion" ELSE "SchemaMismatch"

\* C6 amended: init_from_json fails with one of three errors: the serde_json
\* syntax error for a text that is not JSON; the error Unknown version for any
\* JSON text whose version is absent, not a string or outside the closed set (so
\* a missing version is reported as an unrecognized one, and so is a text that
\* is no object); the serde_json data error for a known tag whose data is
\* absent or does not match the schema.
C6_ThreeErrors ==
    /\ Rejected =>
         err = IF json.t = "invalid" THEN SyntaxError
               ELSE IF Tag \notin {JStr("1.0"), JStr("2.0"), JStr("3.0")} THEN UnknownVersion
               ELSE DataError
    /\ Accepted => err = "none"
    /\ (Rejected /\ json.t = "obj" /\ "data" \notin DOMAIN json.o /\ Tag \in KnownTags)
          => err = DataError

C6_Witness ==
    /\ Rejected
    /\ json.t = "obj"
    /\ DOMAIN json.o = {"data"}
    /\ PayloadExact(1, Data)
    /\ err = UnknownVersion

(***************************************************************************)
(* Properties of the reconstruction.                                       *)
(***************************************************************************)
Reconstructed == pc \in {"query", "done", "panicked"}
Records == {cc.state.players[i] : i \in 1..Len(cc.state.players)}
             \cup {cc.state.monsters[j] : j \in 1..Len(cc.state.monsters)}
IsPlayerId(e) == \E i \in 1..Len(cc.state.players) : cc.state.players[i].entity = e
IsMonsterId(e) == \E j \in 1..Len(cc.state.monsters) : cc.state.monsters[j].entity = e
\* no two records of the save state share the id (the slot index) of their entity
DistinctSlots ==
    /\ \A i, j \in 1..Len(cc.state.players) :
         i # j => cc.state.players[i].entity.id # cc.state.players[j].entity.id
    /\ \A i, j \in 1..Len(cc.state.monsters) :
         i # j => cc.state.monsters[i].entity.id # cc.state.monsters[j].entity.id
    /\ \A i \in 1..Len(cc.state.players), j \in 1..Len(cc.state.monsters) :
         cc.state.players[i].entity.id # cc.state.monsters[j].entity.id
LiveAt(e) == world[e.id].live /\ world[e.id].generation = e.generation

\* C9 as stated: every record has a live object at exactly its entity, and for
\* every player whose target is the entity of a record of the save state the
\* Health lookup succeeds, so the run does not panic on such a target.
C9_EveryTargetResolves ==
    Reconstructed =>
        /\ \A r \in Records : LiveAt(r.entity)
        /\ \A i \in 1..Len(cc.state.players) :
             LET t == cc.state.players[i].target
             IN  (t.some /\ (IsPlayerId(Unwrap(t)) \/ IsMonsterId(Unwrap(t))))
                 => get_Health(world, Unwrap(t)) = "ok"
        /\ (\A i \in 1..Len(cc.state.players) :
               LET t == cc.state.players[i].target
               IN  t.some => (IsPlayerId(Unwrap(t)) \/ IsMonsterId(Unwrap(t))))
             => pc # "panicked"

\* C9 amended: for a V3 save state whose records have pairwise distinct entity
\* ids, the reconstruction creates one live object per record at exactly the
\* record's entity, with the record's components, and no other; for every
\* player whose target is the entity of a monster record the Health lookup
\* succeeds, and the run panics only for a target that is the entity of no
\* record (target should be valid) or of a player record (the query holds the
\* borrow of the players' Health), and it does panic for every such target.
C9_DistinctSlotsResolve ==
    (Reconstructed /\ DistinctSlots) =>
        /\ \A i \in 1..Len(cc.state.players) :
             LET x == cc.state.players[i]
             IN  /\ LiveAt(x.entity)
                 /\ world[x.entity.id].player =
                      [level |-> x.level, damage |-> x.damage, target |-> x.target]
                 /\ world[x.entity.id].health = x.health
        /\ \A j \in 1..Len(cc.state.monsters) :
             LET x == cc.state.monsters[j]
             IN  /\ LiveAt(x.entity)
                 /\ world[x.entity.id].monster = [damage |-> x.damage, variant |-> x.variant]
                 /\ world[x.entity.id].health <= x.health
                 /\ pc = "query" /\ pending = PlayerQuery(world) => world[x.entity.id].health = x.health
        /\ Cardinality({i \in DOMAIN world : world[i].live}) = Cardinality(Records)
        /\ Cardinality(Records) = Len(cc.state.players) + Len(cc.state.monsters)
        /\ \A i \in 1..Len(cc.state.players) :
             LET t == cc.state.players[i].target
             IN  (t.some /\ IsMonsterId(Unwrap(t))) => get_Health(world, Unwrap(t)) = "ok"
        /\ outcome = "target should be valid" =>
             \E i \in 1..Len(cc.state.players) :
                LET t == cc.state.players[i].target
                IN  t.some /\ ~IsPlayerId(Unwrap(t)) /\ ~IsMonsterId(Unwrap(t))
        /\ outcome = "Health already borrowed" =>
             \E i \in 1..Len(cc.state.players) :
                LET t == cc.state.players[i].target
                IN  t.some /\ IsPlayerId(Unwrap(t))
        /\ pc = "panicked" <=> outcome # "none"
        /\ pc = "done" =>
             \A i \in 1..Len(cc.state.players) :
                LET t == cc.state.players[i].target
                IN  t.some => IsMonsterId(Unwrap(t))

C9_Witness ==
    /\ pc = "done"
    /\ DistinctSlots
    /\ Len(cc.state.players) = MaxPlayers
    /\ Len(cc.state.monsters) = MaxMonsters
    /\ cc.state.players[1].target = Some(cc.state.monsters[2].entity)
    /\ cc.state.players[1].entity.id > cc.state.monsters[2].entity.id
    /\ world[cc.state.monsters[2].entity.id].health
         = saturating_sub(cc.state.monsters[2].health, cc.state.players[1].damage)
    /\ world[cc.state.monsters[2].entity.id].health < cc.state.monsters[2].health
    /\ outcome = "none"

====
